---- MODULE Spec2Model ----
(***************************************************************************)
(* ai-watch: the snapshot script scripts/update_data.mjs.                  *)
(*                                                                         *)
(* The repository holds four revisions of the script:                      *)
(*   "update_data"  src/scripts/update_data.mjs                            *)
(*   "part_000"     src/unnamed/part_000                                   *)
(*   "part_001"     src/unnamed/part_001                                   *)
(*   "part_002"     src/unnamed/part_002                                   *)
(* The variable `variant` fixes which revision runs; where the revisions   *)
(* differ the definitions below branch on it.                              *)
(*                                                                         *)
(* One run: main() calls fetchAlerts(), fetchGSC() and fetchBots(), each   *)
(* runs synchronously up to its first await, main awaits Promise.all, and  *)
(* then assembles and writes data.json.  Every await is one action whose   *)
(* outcome (the feed, the API rows, the log file, or a failure) is chosen  *)
(* by the environment.                                                     *)
(***************************************************************************)
EXTENDS Integers, Sequences, FiniteSets, TLC

VARIABLES
  variant,     \* which revision of update_data.mjs runs
  conf,        \* the environment-derived constants (BRAND_TERMS, ALERT_FEEDS, GSC_*, LOG_PATH, DEMO, BOT_EXTRA)
  mainPc,      \* main(): "start" | "await" | "mkdir" | "write" | "done" | "exit1"
  data,        \* main's object `data`, once assembled
  fatalErr,    \* the error main().catch received: "" | "gsc" | "mkdir" | "write"
  outFile,     \* data.json: NoFile or the snapshot written
  alertsPc,    \* fetchAlerts(): "idle" | "fetch" | "done"
  feedIdx,     \* index into ALERT_FEEDS of the parseURL call in flight
  all,         \* fetchAlerts' array `all` (sorted in place once the loop ends)
  feedLog,     \* what parser.parseURL answered for each feed so far
  alertsRet,   \* the value fetchAlerts() resolved with
  gscPc,       \* fetchGSC(): "idle" | "query" | "done" | "rejected"
  gscWindow,   \* the window of the queries in flight: 30 or 90 (days)
  gscPending,  \* the dimensions whose searchanalytics.query call is in flight
  gscRows,     \* rows received for gscWindow: [query |-> ..., page |-> ...]
  gscFirst,    \* the raw rows the 30-day window returned (kept for the fallback test)
  gscCalls,    \* every searchanalytics.query call issued: <<window, dimension>>
  gscRet,      \* the value fetchGSC() resolved with (Null: null)
  botsPc,      \* fetchBots(): "idle" | "read" | "done"
  logLines,    \* fetchBots' array `lines` (the reversed, non-empty lines)
  botsRet,     \* the value fetchBots() resolved with
  botsErr      \* fetchBots' catch ran (it logged 'LOG error')

vars == <<variant, conf, mainPc, data, fatalErr, outFile, alertsPc, feedIdx, all, feedLog,
          alertsRet, gscPc, gscWindow, gscPending, gscRows, gscFirst,
          gscCalls, gscRet, botsPc, logLines, botsRet, botsErr>>

alertsVars == <<alertsPc, feedIdx, all, feedLog, alertsRet>>
gscVars    == <<gscPc, gscWindow, gscPending, gscRows, gscFirst, gscCalls, gscRet>>
botsVars   == <<botsPc, logLines, botsRet, botsErr>>
mainVars   == <<mainPc, data, fatalErr, outFile>>

Variants == {"update_data", "part_000", "part_001", "part_002"}

(***************************************************************************)
(* Bounds of the model.                                                    *)
(***************************************************************************)
MaxFeeds == 3      \* feed URLs in ALERT_FEEDS
MaxItems == 4      \* items collected from all feeds of one run
MaxLogLines == 3   \* lines of the access log
StartTime == 10    \* the clock when the run starts (feed dates are 1 and 2)

(***************************************************************************)
(* JavaScript values.                                                      *)
(***************************************************************************)
\* a || b on strings: the empty string (and undefined, modelled as "") is falsy
Or(a, b) == IF a # "" THEN a ELSE b

NaN == [nan |-> TRUE, v |-> 0]
Num(n) == [nan |-> FALSE, v |-> n]
Minus(x, y) == IF x.nan \/ y.nan THEN NaN ELSE Num(x.v - y.v)

\* new Date().toISOString() at clock value t
toISOString(t) == "iso:" \o ToString(t)

ClockValues == 0..(StartTime + MaxFeeds + 2)

\* new Date(s): an ISO string ("iso:N") and an RFC-822 pubDate ("rfc:N") of
\* instant N parse to N; any other string is an Invalid Date (NaN).
DateValue(s) ==
  IF \E n \in ClockValues : s = "iso:" \o ToString(n)
  THEN Num(CHOOSE n \in ClockValues : s = "iso:" \o ToString(n))
  ELSE IF \E n \in ClockValues : s = "rfc:" \o ToString(n)
  THEN Num(CHOOSE n \in ClockValues : s = "rfc:" \o ToString(n))
  ELSE NaN

RECURSIVE SeqSum(_)
SeqSum(s) == IF s = <<>> THEN 0 ELSE Head(s) + SeqSum(Tail(s))

Reverse(s) == [i \in 1..Len(s) |-> s[Len(s) + 1 - i]]

Range(s) == {s[i] : i \in 1..Len(s)}

\* Array.prototype.slice(0, n)
Slice(s, n) == IF Len(s) <= n THEN s ELSE SubSeq(s, 1, n)

\* s without its i-th element
RemoveAt(s, i) == SubSeq(s, 1, i - 1) \o SubSeq(s, i + 1, Len(s))

RECURSIVE SeqPermutations(_)
SeqPermutations(s) ==
  IF s = <<>> THEN {<<>>}
  ELSE UNION {{<<s[i]>> \o p : p \in SeqPermutations(RemoveAt(s, i))} : i \in 1..Len(s)}

(***************************************************************************)
(* fetchAlerts                                                             *)
(***************************************************************************)
\* An rss-parser item: id, guid, link, title, isoDate, pubDate ("" : absent).
\* rss-parser sets isoDate only when pubDate parses.
Item(id, guid, link, title, isoDate, pubDate) ==
  [id |-> id, guid |-> guid, link |-> link, title |-> title,
   isoDate |-> isoDate, pubDate |-> pubDate]

\* `${item.title}`: an absent title prints as "undefined"
TemplateText(t) == IF t = "" THEN "undefined" ELSE t

\* (feed.title || '').replace(/^Google Alerts -\s*/i, '').trim()
StripAlertsPrefix(title) ==
  CASE title = "Google Alerts - wpg" -> "wpg"
    [] title = "google alerts -" -> ""
    [] OTHER -> title

\* new URL(url).hostname
Hostname(url) == "host." \o url

sourceName(v, feedTitle, url) ==
  IF v = "part_002"
  THEN Or(StripAlertsPrefix(feedTitle), Hostname(url))
  ELSE StripAlertsPrefix(feedTitle)

\* the object pushed onto `all` for one feed item
AlertItem(item, source, now) ==
  [id |-> Or(item.id, Or(item.guid, Or(item.link,
             TemplateText(item.title) \o "-" \o Or(item.isoDate, Or(item.pubDate, ""))))),
   title |-> Or(item.title, "(utan titel)"),
   link |-> item.link,
   source |-> source,
   published |-> Or(item.isoDate, Or(item.pubDate, now))]

\* the other order of the two fields, for comparison: it.id || it.link
IdentityKeyIdFirst(it) == Or(it.id, it.link)
\* const key = it.link || it.id
IdentityKey(it) == Or(it.link, it.id)

\* (a,b) => new Date(b.published) - new Date(a.published)
byPublishedDesc(a, b) == Minus(DateValue(b.published), DateValue(a.published))

\* Array.prototype.sort calls the comparator and reads NaN as +0 (ECMA-262
\* SortCompare).
SortCompare(a, b) ==
  LET r == byPublishedDesc(a, b) IN IF r.nan THEN 0 ELSE r.v

\* ECMA-262 "consistent comparison function" on the elements of s: with
\* differences of numbers only the transitivity of "equal" can fail, and it
\* fails when an Invalid Date compares equal to two different dates.
ConsistentCompare(s) ==
  \A i, j, k \in 1..Len(s) :
    (SortCompare(s[i], s[j]) = 0 /\ SortCompare(s[j], s[k]) = 0)
      => SortCompare(s[i], s[k]) = 0

\* stable insertion of x into a sorted sequence: after every element that
\* does not compare greater than x
RECURSIVE InsertSorted(_, _)
InsertSorted(s, x) ==
  IF s = <<>> THEN <<x>>
  ELSE IF SortCompare(Head(s), x) <= 0
       THEN <<Head(s)>> \o InsertSorted(Tail(s), x)
       ELSE <<x>> \o s

RECURSIVE StableSort(_)
StableSort(s) ==
  IF s = <<>> THEN <<>>
  ELSE InsertSorted(StableSort(SubSeq(s, 1, Len(s) - 1)), s[Len(s)])

\* all.sort(cmp): stable with a consistent comparator; with an inconsistent
\* one the order is implementation-defined (ECMA-262 23.1.3.30), any
\* permutation of the elements.
SortOutcomes(s) ==
  IF ConsistentCompare(s) THEN {StableSort(s)} ELSE SeqPermutations(s)

\* the dedupe loop over the sorted array: seen / dedup
RECURSIVE DedupeFrom(_, _)
DedupeFrom(s, seen) ==
  IF s = <<>> THEN <<>>
  ELSE IF IdentityKey(Head(s)) \in seen
       THEN DedupeFrom(Tail(s), seen)
       ELSE <<Head(s)>> \o DedupeFrom(Tail(s), seen \cup {IdentityKey(Head(s))})

Dedupe(s) == DedupeFrom(s, {})

\* the items of one parsed feed, as pushed onto `all`
FeedItems(v, feed, url, now) ==
  [i \in 1..Len(feed.items) |->
     AlertItem(feed.items[i], sourceName(v, feed.title, url), now)]

FeedFailed == [ok |-> FALSE, title |-> "", items |-> <<>>]
Feed(title, items) == [ok |-> TRUE, title |-> title, items |-> items]

\* for comparison: a try/catch around the whole loop, where one failure loses every feed
PushFeedDropAll(v, acc, resp, url, now) ==
  IF resp.ok THEN acc \o FeedItems(v, resp, url, now) ELSE <<>>
\* `all` after the try/catch around one feed
PushFeed(v, acc, resp, url, now) ==
  IF resp.ok THEN acc \o FeedItems(v, resp, url, now) ELSE acc

(***************************************************************************)
(* fetchGSC                                                                *)
(***************************************************************************)
TopN == 50   \* .slice(0, 50)
ExtraRows == 1   \* rows beyond TopN in the long API answers of the model

\* String.prototype.toLowerCase, character by character
LowerChar(c) ==
  CASE c = "W" -> "w"
    [] c = "P" -> "p"
    [] c = "G" -> "g"
    [] OTHER -> c

toLowerCase(str) == [i \in 1..Len(str) |-> LowerChar(str[i])]

\* String.prototype.includes
includes(str, t) ==
  \E i \in 1..(Len(str) + 1) :
    /\ i + Len(t) - 1 <= Len(str)
    /\ SubSeq(str, i, i + Len(t) - 1) = t

\* r.keys?.[0] || ''
FirstKey(r) == IF r.keys = <<>> THEN <<>> ELSE r.keys[1]

\* for comparison: the same test without lower-casing either side
IsBrandNoLower(terms, r) ==
  \E i \in 1..Len(terms) : includes(FirstKey(r), toLowerCase(terms[i]))
\* termsLower.some(t => (r.keys?.[0]||'').toLowerCase().includes(t))
IsBrand(terms, r) ==
  \E i \in 1..Len(terms) :
    includes(toLowerCase(FirstKey(r)), toLowerCase(terms[i]))

QueryRow(r) ==
  [query |-> FirstKey(r), clicks |-> r.clicks, impressions |-> r.impressions,
   ctr |-> r.ctr, position |-> r.position]

PageRow(r) ==
  [page |-> FirstKey(r), clicks |-> r.clicks, impressions |-> r.impressions,
   ctr |-> r.ctr]

\* for comparison: the place of s[i] in ascending order
AscRank(s, i, f) ==
  Cardinality({j \in 1..Len(s) :
                 s[j][f] < s[i][f] \/ (s[j][f] = s[i][f] /\ j < i)}) + 1

\* .sort((a,b) => b[f] - a[f]): a consistent comparator, so the sort is stable
\* the place of s[i] after the sort: behind every row with a larger value of
\* f and behind the equal rows that came before it (the sort is stable)
DescRank(s, i, f) ==
  Cardinality({j \in 1..Len(s) :
                 s[j][f] > s[i][f] \/ (s[j][f] = s[i][f] /\ j < i)}) + 1

SortDesc(s, f) ==
  [k \in 1..Len(s) |-> s[CHOOSE i \in 1..Len(s) : DescRank(s, i, f) = k]]

\* filter -> map -> sort by impressions descending
brandQueries(terms, rows) ==
  LET kept == SelectSeq(rows, LAMBDA r : IsBrand(terms, r))
  IN SortDesc([i \in 1..Len(kept) |-> QueryRow(kept[i])], "impressions")

\* map -> sort by clicks descending
pages(rows) == SortDesc([i \in 1..Len(rows) |-> PageRow(rows[i])], "clicks")

\* n / d rounded to the nearest integer (Number.prototype.toFixed rounds)
RoundDiv(n, d) == (2 * n + d) \div (2 * d)

\* (x).toFixed(2) + '%' for x given in hundredths
Fixed2Pct(h) ==
  ToString(h \div 100) \o "." \o ToString((h % 100) \div 10)
    \o ToString(h % 10) \o "%"

\* Row ctr values are fractions, held in the model as ten-thousandths.
\* pRows.length ? (sum(ctr)/pRows.length)*100 : 0, then toFixed(2) + '%'
ctrAvgPct(rows) ==
  IF Len(rows) = 0 THEN Fixed2Pct(0)
  ELSE Fixed2Pct(RoundDiv(SeqSum([i \in 1..Len(rows) |-> rows[i].ctr]), Len(rows)))

\* percent(imprSum > 0 ? clicksSum / imprSum : 0)
percent(clicksSum, imprSum) ==
  IF imprSum > 0 /\ clicksSum # 0
  THEN Fixed2Pct(RoundDiv(10000 * clicksSum, imprSum))
  ELSE "0.00%"

\* toISOString().slice(0,10) of a day number
isoDay(d) == "day" \o ToString(d)

\* end: yesterday; start: 29 (30-day window) or 89 (90-day window) days before
EndDay == StartTime - 1
StartDayOf(window) == EndDay - (window - 1)
RangeLabel(window) == isoDay(StartDayOf(window)) \o " -> " \o isoDay(EndDay)

\* the Period field of the summary
Period(v, window) ==
  IF v = "part_002"
  THEN RangeLabel(window) \o (IF window = 90 THEN " (fallback 90d)" ELSE "")
  ELSE RangeLabel(window)

Null == [null |-> TRUE]

HasTryCatch(v) == v \in {"part_000", "part_002"}
HasFallback(v) == v \in {"part_000", "part_002"}
QueriesInParallel(v) == v = "part_000"

\* what fetchGSC returns from the raw rows of the window used
GSCResult(v, window, terms, rows) ==
  LET q == brandQueries(terms, rows.query)
      p == pages(rows.page)
      topPages == Slice(p, TopN)
      summed == IF v = "part_002" THEN topPages ELSE p
      clicksSum == SeqSum([i \in 1..Len(summed) |-> summed[i].clicks])
      imprSum == SeqSum([i \in 1..Len(summed) |-> summed[i].impressions])
  IN [summary |->
        [Klickar |-> clicksSum,
         Visningar |-> imprSum,
         GenCTR |-> IF v = "part_002" THEN percent(clicksSum, imprSum)
                    ELSE ctrAvgPct(p),
         Period |-> Period(v, window)],
      topQueries |-> Slice(q, TopN),
      topPages |-> topPages]

\* the test that sends fetchGSC to the 90-day window
NeedsFallback(v, terms, rows) ==
  CASE v = "part_002" -> Len(rows.query) = 0 /\ Len(rows.page) = 0
    [] v = "part_000" ->
         Len(brandQueries(terms, rows.query)) = 0 /\ Len(pages(rows.page)) = 0
    [] OTHER -> FALSE

\* the dimensions queried first for a window, and the calls that issues
FirstPending(v) == IF QueriesInParallel(v) THEN {"query", "page"} ELSE {"query"}
CallsFor(window, dims) ==
  (IF "query" \in dims THEN <<<<window, "query">>>> ELSE <<>>)
    \o (IF "page" \in dims THEN <<<<window, "page">>>> ELSE <<>>)

NoRows == [query |-> <<>>, page |-> <<>>]

\* for comparison: a test that leaves GSC_PROPERTY out
CredsPresentButProperty(c) ==
  c.GSC_CLIENT_ID # "" /\ c.GSC_CLIENT_SECRET # "" /\ c.GSC_REFRESH_TOKEN # ""

CredsPresent(c) ==
  /\ c.GSC_CLIENT_ID # "" /\ c.GSC_CLIENT_SECRET # ""
  /\ c.GSC_REFRESH_TOKEN # "" /\ c.GSC_PROPERTY # ""

(***************************************************************************)
(* fetchBots                                                               *)
(***************************************************************************)
\* A log line: its bracketed segments, its double-quoted segments (each a
\* sequence of words), and whether it ends with two quoted segments one
\* space apart (the combined format: "referer" "user-agent").  A blank
\* line is the empty string.
Line(ts, quoted, combined) ==
  [ts |-> ts, quoted |-> quoted, combined |-> combined, blank |-> FALSE]
BlankLine == [ts |-> <<>>, quoted |-> <<>>, combined |-> FALSE, blank |-> TRUE]

\* the i flag of the signatures, word by word
LowerWord(w) ==
  CASE w = "GPTBot" -> "gptbot"
    [] w = "Googlebot" -> "googlebot"
    [] w = "Google-Extended" -> "google-extended"
    [] w = "Anthropic" -> "anthropic"
    [] w = "Bingbot" -> "bingbot"
    [] OTHER -> w

\* a signature: its name and the alternatives of its regular expression
Sig(name, alts) == [name |-> name, rx |-> alts]

\* rx.test(ua) with the i flag
test(sig, ua) == \E i \in 1..Len(ua) : LowerWord(ua[i]) \in sig.rx

\* line.match(/"[^"]*" "([^"]*)"$/) (update_data, part_000, part_001);
\* the last "..." segment of the line (part_002); '' when there is none
parseUA(v, line) ==
  IF v = "part_002"
  THEN IF Len(line.quoted) > 0 THEN line.quoted[Len(line.quoted)] ELSE <<>>
  ELSE IF line.combined /\ Len(line.quoted) >= 2
       THEN line.quoted[Len(line.quoted)] ELSE <<>>

\* line.match(/\[(.*?)\]/)?.[1] || null   (null is held as "")
timeOf(line) == IF Len(line.ts) > 0 THEN line.ts[1] ELSE ""

\* new RegExp(token, 'i') throws for an invalid pattern
ValidRegExp(token) == token # "("

BuiltinDefs(v) ==
  IF v = "part_002"
  THEN << Sig("GPTBot (OpenAI)", {"gptbot", "chatgpt-user"}),
          Sig("Claude-Web (Anthropic)", {"claude-web", "claudebot", "anthropic"}),
          Sig("PerplexityBot", {"perplexitybot"}),
          Sig("Google-Extended", {"google-extended"}),
          Sig("Googlebot", {"googlebot"}),
          Sig("Bingbot", {"bingbot", "bingpreview"}),
          Sig("DuckDuckBot", {"duckduckbot"}),
          Sig("YandexBot", {"yandexbot", "yandeximages"}),
          Sig("Applebot", {"applebot"}),
          Sig("FacebookExternalHit", {"facebookexternalhit", "facebookbot"}),
          Sig("Twitterbot / XBot", {"twitterbot", "xbot"}),
          Sig("LinkedInBot", {"linkedinbot"}),
          Sig("Discordbot", {"discordbot"}),
          Sig("AhrefsBot", {"ahrefsbot"}),
          Sig("SemrushBot", {"semrushbot"}),
          Sig("DotBot (Moz)", {"dotbot"}),
          Sig("MJ12bot", {"mj12bot"}),
          Sig("Bytespider (ByteDance)", {"bytespider"}),
          Sig("CCBot (CommonCrawl)", {"ccbot"}),
          Sig("Screaming Frog", {"screamingfrog"}),
          Sig("SeznamBot", {"seznambot"}) >>
  ELSE << Sig("GPTBot", {"gptbot"}),
          Sig("PerplexityBot", {"perplexitybot"}),
          Sig("Claude-Web", {"claude-web", "anthropic"}),
          Sig("Google-Extended", {"google-extended", "googlebot"}) >>

\* the signature table: the built-in ones, then (part_002) one per BOT_EXTRA
\* token that compiles
BOT_DEFS(v, extra) ==
  IF v = "part_002"
  THEN LET ok == SelectSeq(extra, ValidRegExp)
       IN BuiltinDefs(v) \o [i \in 1..Len(ok) |-> Sig(ok[i], {LowerWord(ok[i])})]
  ELSE BuiltinDefs(v)

Stat(name, hits, last_seen) == [name |-> name, hits |-> hits, last_seen |-> last_seen]

\* update_data, part_000, part_001: every signature that matches counts the
\* line; last_seen is set while it is still null
CountEvery(defs, stats, line, ua) ==
  [i \in 1..Len(defs) |->
     IF test(defs[i], ua)
     THEN Stat(stats[i].name, stats[i].hits + 1,
               IF stats[i].last_seen = "" THEN timeOf(line) ELSE stats[i].last_seen)
     ELSE stats[i]]

\* for comparison: an accumulator that is a list, with a new entry for every
\* line that is counted
CountFirstNoMap(defs, stats, line, ua) ==
  IF ua = <<>> \/ ua = <<"-">> \/ ~(\E i \in 1..Len(defs) : test(defs[i], ua))
  THEN stats
  ELSE LET first == CHOOSE i \in 1..Len(defs) :
                      test(defs[i], ua) /\ \A j \in 1..(i - 1) : ~test(defs[j], ua)
       IN Append(stats, Stat(defs[first].name, 1, timeOf(line)))

\* part_002: the first signature that matches counts the line (break); the
\* Map entry is created with the line's timestamp, later hits only count
CountFirst(defs, stats, line, ua) ==
  IF ua = <<>> \/ ua = <<"-">> \/ ~(\E i \in 1..Len(defs) : test(defs[i], ua))
  THEN stats
  ELSE LET first == CHOOSE i \in 1..Len(defs) :
                      test(defs[i], ua) /\ \A j \in 1..(i - 1) : ~test(defs[j], ua)
           name == defs[first].name
       IN IF \E k \in 1..Len(stats) : stats[k].name = name
          THEN [k \in 1..Len(stats) |->
                  IF stats[k].name = name
                  THEN Stat(name, stats[k].hits + 1, stats[k].last_seen)
                  ELSE stats[k]]
          ELSE Append(stats, Stat(name, 1, timeOf(line)))

\* one iteration of `for (const line of lines)`
CountLine(v, defs, stats, line) ==
  IF v = "part_002"
  THEN CountFirst(defs, stats, line, parseUA(v, line))
  ELSE CountEvery(defs, stats, line, parseUA(v, line))

RECURSIVE CountLines(_, _, _, _)
CountLines(v, defs, stats, lines) ==
  IF lines = <<>> THEN stats
  ELSE CountLines(v, defs, CountLine(v, defs, stats, Head(lines)), Tail(lines))

\* the accumulator before the loop: one zero entry per signature, or an
\* empty Map (part_002)
InitialStats(v, defs) ==
  IF v = "part_002" THEN <<>>
  ELSE [i \in 1..Len(defs) |-> Stat(defs[i].name, 0, "")]

\* for comparison: a scan that stops after the newest line
ScanNewestLineOnly(v, defs, lines) ==
  LET stats == CountLines(v, defs, InitialStats(v, defs), Slice(lines, 1))
  IN IF v = "part_002" THEN SortDesc(stats, "hits")
     ELSE SelectSeq(stats, LAMBDA st : st.hits > 0)
\* the loop over `lines`, then stats.filter(s => s.hits > 0) or (part_002)
\* Array.from(statsMap.values()).sort((a,b) => b.hits - a.hits)
Scan(v, defs, lines) ==
  LET stats == CountLines(v, defs, InitialStats(v, defs), lines)
  IN IF v = "part_002" THEN SortDesc(stats, "hits")
     ELSE SelectSeq(stats, LAMBDA st : st.hits > 0)

\* raw.split('\n').filter(Boolean).reverse()
SplitLines(raw) == Reverse(SelectSeq(raw, LAMBDA l : ~l.blank))

(***************************************************************************)
(* main                                                                    *)
(***************************************************************************)
NoFile == [written |-> FALSE]

\* gsc || { summary: { Notis: ... }, topQueries: [], topPages: [] }
Placeholder(v) ==
  [summary |-> [Notis |-> IF v \in {"part_000", "part_002"}
                          THEN "GSC ej konfigurerat eller tomt"
                          ELSE "GSC ej konfigurerat"],
   topQueries |-> <<>>, topPages |-> <<>>]

DemoAlerts(now) ==
  << [id |-> "demo-1", title |-> "World Poker Guide demo",
      link |-> "https://example.com/demo-world-poker-guide",
      source |-> "Demo RSS", published |-> toISOString(now)],
     [id |-> "demo-2", title |-> "worldpoker.guide demo",
      link |-> "https://example.com/demo-2",
      source |-> "Demo RSS", published |-> toISOString(now - 1)] >>

DemoGSC ==
  [summary |-> [Klickar |-> 42, Visningar |-> 1234, GenCTR |-> "3.40%",
                Period |-> "DEMO (90 dagar)"],
   topQueries |->
     << [query |-> <<"world poker guide">>, clicks |-> 12, impressions |-> 400,
         ctr |-> 300, position |-> 81],
        [query |-> <<"worldpoker.guide">>, clicks |-> 8, impressions |-> 120,
         ctr |-> 660, position |-> 23] >>,
   topPages |->
     << [page |-> <<"https://worldpoker.guide/">>, clicks |-> 20,
         impressions |-> 500, ctr |-> 400],
        [page |-> <<"https://worldpoker.guide/poker-hands">>, clicks |-> 12,
         impressions |-> 300, ctr |-> 400] >>]

DemoBots ==
  << Stat("GPTBot (OpenAI)", 3, "21/Aug/2025:10:13:11 +0000"),
     Stat("PerplexityBot", 1, "21/Aug/2025:10:14:55 +0000") >>

\* the object `data` main builds from the three results, DEMO applied
Snapshot(v, c, alerts, gsc, bots, now) ==
  LET d == [generated_at |-> toISOString(now),
            brand_terms |-> c.BRAND_TERMS,
            alerts |-> alerts,
            gsc |-> IF gsc = Null THEN Placeholder(v) ELSE gsc,
            bots |-> bots]
  IN IF v = "part_002" /\ c.DEMO
     THEN [d EXCEPT
             !.alerts = IF Len(d.alerts) = 0 THEN DemoAlerts(now) ELSE @,
             !.gsc = IF Len(d.gsc.topPages) = 0 THEN DemoGSC ELSE @,
             !.bots = IF Len(d.bots) = 0 THEN DemoBots ELSE @]
     ELSE d

\* update_data, part_000, part_001 await fs.mkdir before fs.writeFile
HasMkdir(v) == v # "part_002"

(***************************************************************************)
(* The run.                                                                *)
(***************************************************************************)
Urls(n) == [i \in 1..n |-> "u" \o ToString(i)]

Config(terms, n, id, secret, token, property, path, demo, extra) ==
  [BRAND_TERMS |-> terms, ALERT_FEEDS |-> Urls(n),
   GSC_CLIENT_ID |-> id, GSC_CLIENT_SECRET |-> secret,
   GSC_REFRESH_TOKEN |-> token, GSC_PROPERTY |-> property,
   LOG_PATH |-> path, DEMO |-> demo, BOT_EXTRA |-> extra]

\* the state when main() is entered
InitWith(configs) ==
  /\ variant \in Variants
  /\ conf \in configs
  /\ (conf.DEMO => variant = "part_002")
  /\ (conf.BOT_EXTRA # <<>> => variant = "part_002")
  /\ mainPc = "start"
  /\ data = NoFile
  /\ fatalErr = ""
  /\ outFile = NoFile
  /\ alertsPc = "idle" /\ feedIdx = 0 /\ all = <<>> /\ feedLog = <<>>
  /\ alertsRet = <<>>
  /\ gscPc = "idle" /\ gscWindow = 30 /\ gscPending = {} /\ gscRows = NoRows
  /\ gscFirst = NoRows /\ gscCalls = <<>> /\ gscRet = Null
  /\ botsPc = "idle" /\ logLines = <<>> /\ botsRet = <<>> /\ botsErr = FALSE

\* fetchAlerts() up to its first await
AlertsCall ==
  /\ feedLog' = <<>> /\ all' = <<>> /\ alertsRet' = <<>>
  /\ IF Len(conf.ALERT_FEEDS) = 0
     THEN alertsPc' = "done" /\ feedIdx' = 0
     ELSE alertsPc' = "fetch" /\ feedIdx' = 1

\* fetchGSC() up to its first await
GSCCall ==
  /\ gscWindow' = 30 /\ gscRows' = NoRows /\ gscFirst' = NoRows /\ gscRet' = Null
  /\ IF CredsPresent(conf)
     THEN /\ gscPc' = "query"
          /\ gscPending' = FirstPending(variant)
          /\ gscCalls' = CallsFor(30, FirstPending(variant))
     ELSE gscPc' = "done" /\ gscPending' = {} /\ gscCalls' = <<>>

\* fetchBots() up to its first await
BotsCall ==
  /\ logLines' = <<>> /\ botsRet' = <<>> /\ botsErr' = FALSE
  /\ botsPc' = IF conf.LOG_PATH = "" THEN "done" ELSE "read"

\* main() up to `await Promise.all([fetchAlerts(), fetchGSC(), fetchBots()])`
Start ==
  /\ mainPc = "start"
  /\ mainPc' = "await"
  /\ AlertsCall /\ GSCCall /\ BotsCall
  /\ UNCHANGED <<variant, conf, data, fatalErr, outFile>>

\* the end of the for loop over ALERT_FEEDS: sort, dedupe, return
AlertsSettle(acc, log) ==
  /\ feedLog' = log
  /\ IF feedIdx = Len(conf.ALERT_FEEDS)
     THEN /\ \E sorted \in SortOutcomes(acc) :
               all' = sorted /\ alertsRet' = Dedupe(sorted)
          /\ alertsPc' = "done"
          /\ feedIdx' = feedIdx
     ELSE /\ all' = acc /\ alertsRet' = alertsRet
          /\ alertsPc' = "fetch"
          /\ feedIdx' = feedIdx + 1

\* parser.parseURL(url) resolves with a feed
FeedResolves(feeds) ==
  /\ mainPc = "await" /\ alertsPc = "fetch"
  /\ \E feed \in feeds :
       /\ Len(all) + Len(feed.items) <= MaxItems
       /\ LET url == conf.ALERT_FEEDS[feedIdx]
           now == toISOString(StartTime + feedIdx)
          IN AlertsSettle(PushFeed(variant, all, feed, url, now),
                          Append(feedLog, [ok |-> TRUE,
                                           items |-> FeedItems(variant, feed, url, now)]))
  /\ UNCHANGED <<variant, conf, mainVars, gscVars, botsVars>>

\* parser.parseURL(url) rejects (network, malformed XML): caught, logged
FeedRejects ==
  /\ mainPc = "await" /\ alertsPc = "fetch"
  /\ AlertsSettle(PushFeed(variant, all, FeedFailed, conf.ALERT_FEEDS[feedIdx], ""),
                  Append(feedLog, [ok |-> FALSE, items |-> <<>>]))
  /\ UNCHANGED <<variant, conf, mainVars, gscVars, botsVars>>

\* a searchanalytics.query call resolves with its rows
QueryResolves(queryAnswers, pageAnswers) ==
  /\ mainPc = "await" /\ gscPc = "query"
  /\ \E dim \in gscPending :
     \E rows \in (IF dim = "query" THEN queryAnswers ELSE pageAnswers) :
       LET got == [gscRows EXCEPT ![dim] = rows]
           left == gscPending \ {dim}
       IN IF left # {}
          THEN \* Promise.all still waits for the other call
               /\ gscRows' = got /\ gscPending' = left
               /\ UNCHANGED <<gscPc, gscWindow, gscFirst, gscCalls, gscRet>>
          ELSE IF dim = "query" /\ ~QueriesInParallel(variant)
          THEN \* the page query is issued once the query rows are in
               /\ gscRows' = got /\ gscPending' = {"page"}
               /\ gscCalls' = gscCalls \o CallsFor(gscWindow, {"page"})
               /\ UNCHANGED <<gscPc, gscWindow, gscFirst, gscRet>>
          ELSE IF gscWindow = 30 /\ HasFallback(variant)
                  /\ NeedsFallback(variant, conf.BRAND_TERMS, got)
          THEN \* fall back to the 90-day window
               /\ gscWindow' = 90 /\ gscFirst' = got /\ gscRows' = NoRows
               /\ gscPending' = FirstPending(variant)
               /\ gscCalls' = gscCalls \o CallsFor(90, FirstPending(variant))
               /\ UNCHANGED <<gscPc, gscRet>>
          ELSE /\ gscPc' = "done" /\ gscPending' = {} /\ gscRows' = got
               /\ gscFirst' = IF gscWindow = 30 THEN got ELSE gscFirst
               /\ gscRet' = GSCResult(variant, gscWindow, conf.BRAND_TERMS, got)
               /\ UNCHANGED <<gscWindow, gscCalls>>
  /\ UNCHANGED <<variant, conf, mainVars, alertsVars, botsVars>>

\* a searchanalytics.query call rejects (auth, quota, malformed response):
\* part_000 and part_002 catch it and return null; in update_data and
\* part_001 fetchGSC rejects, Promise.all rejects, and main().catch exits
QueryRejects ==
  /\ mainPc = "await" /\ gscPc = "query"
  /\ gscPending # {}
  /\ gscPending' = {}
  /\ gscRet' = Null
  /\ IF HasTryCatch(variant)
     THEN gscPc' = "done" /\ UNCHANGED mainVars
     ELSE /\ gscPc' = "rejected"
          /\ mainPc' = "exit1" /\ fatalErr' = "gsc"
          /\ UNCHANGED <<data, outFile>>
  /\ UNCHANGED <<gscWindow, gscRows, gscFirst, gscCalls>>
  /\ UNCHANGED <<variant, conf, alertsVars, botsVars>>

\* readFile / readTextMaybeGz resolves with the file's text
ReadResolves(logs) ==
  /\ mainPc = "await" /\ botsPc = "read"
  /\ \E raw \in logs :
       /\ logLines' = SplitLines(raw)
       /\ botsRet' = Scan(variant, BOT_DEFS(variant, conf.BOT_EXTRA), SplitLines(raw))
  /\ botsPc' = "done" /\ botsErr' = FALSE
  /\ UNCHANGED <<variant, conf, mainVars, alertsVars, gscVars>>

\* for comparison: a fetchBots without the try/catch, whose rejection reaches
\* main().catch
ReadRejectsUncaught ==
  /\ mainPc = "await" /\ botsPc = "read"
  /\ logLines' = <<>> /\ botsRet' = <<>>
  /\ botsPc' = "rejected" /\ botsErr' = TRUE
  /\ mainPc' = "exit1" /\ fatalErr' = "bots"
  /\ UNCHANGED <<variant, conf, data, outFile, alertsVars, gscVars>>

\* reading or decompressing the log fails: caught, logged, []
ReadRejects ==
  /\ mainPc = "await" /\ botsPc = "read"
  /\ logLines' = <<>> /\ botsRet' = <<>>
  /\ botsPc' = "done" /\ botsErr' = TRUE
  /\ UNCHANGED <<variant, conf, mainVars, alertsVars, gscVars>>

\* Promise.all resolves: main builds `data` and starts writing
Join ==
  /\ mainPc = "await"
  /\ alertsPc = "done" /\ gscPc = "done" /\ botsPc = "done"
  /\ data' = Snapshot(variant, conf, alertsRet, gscRet, botsRet,
                      StartTime + Len(conf.ALERT_FEEDS) + 1)
  /\ mainPc' = IF HasMkdir(variant) THEN "mkdir" ELSE "write"
  /\ UNCHANGED <<variant, conf, fatalErr, outFile, alertsVars, gscVars, botsVars>>

MkdirResolves ==
  /\ mainPc = "mkdir"
  /\ mainPc' = "write"
  /\ UNCHANGED <<variant, conf, data, fatalErr, outFile, alertsVars, gscVars, botsVars>>

MkdirRejects ==
  /\ mainPc = "mkdir"
  /\ mainPc' = "exit1" /\ fatalErr' = "mkdir"
  /\ UNCHANGED <<variant, conf, data, outFile, alertsVars, gscVars, botsVars>>

WriteResolves ==
  /\ mainPc = "write"
  /\ outFile' = data
  /\ mainPc' = "done"
  /\ UNCHANGED <<variant, conf, data, fatalErr, alertsVars, gscVars, botsVars>>

WriteRejects ==
  /\ mainPc = "write"
  /\ mainPc' = "exit1" /\ fatalErr' = "write"
  /\ UNCHANGED <<variant, conf, data, outFile, alertsVars, gscVars, botsVars>>

(***************************************************************************)
(* The environment: what the feeds, the API and the log may answer.        *)
(***************************************************************************)
ItemA  == Item("", "g1", "L1", "A", "iso:1", "rfc:1")
ItemA2 == Item("", "g2", "L1", "A again", "iso:2", "rfc:2")
ItemX  == Item("", "g3", "L1", "X", "", "garbage")
ItemB  == Item("", "g4", "L2", "B", "iso:2", "rfc:2")
ItemN  == Item("", "g1", "", "", "", "")
ItemS  == Item("", "", "", "S", "", "rfc:1")

FeedOne   == Feed("Google Alerts - wpg", <<ItemA>>)
FeedBad   == Feed("", <<ItemX, ItemB>>)
FeedNews  == Feed("News", <<ItemB>>)
FeedTwo   == Feed("google alerts -", <<ItemA2, ItemN>>)
FeedMixed == Feed("News", <<ItemS, ItemA>>)
FeedEmpty == Feed("News", <<>>)

AllFeeds == {FeedOne, FeedBad, FeedNews, FeedTwo, FeedMixed, FeedEmpty}
FewFeeds == {FeedOne, FeedTwo}

Row(key, clicks, impressions, ctr, position) ==
  [keys |-> <<key>>, clicks |-> clicks, impressions |-> impressions,
   ctr |-> ctr, position |-> position]

QueryWp    == Row(<<"w", "p">>, 1, 10, 1000, 10)
QueryUpper == Row(<<"x", "W", "P", "x">>, 2, 30, 667, 20)
QueryOther == Row(<<"p", "w">>, 5, 50, 1000, 30)
QueryG     == Row(<<"g">>, 0, 30, 0, 40)
QueryNoKey == [keys |-> <<>>, clicks |-> 1, impressions |-> 5, ctr |-> 2000,
               position |-> 50]

PageHome == Row(<<"/">>, 1, 10, 1000, 0)
PageBig  == Row(<<"/big">>, 0, 90, 0, 0)
PageTop  == Row(<<"/top">>, 3, 20, 1500, 0)
PageZero == Row(<<"/zero">>, 0, 0, 0, 0)

\* n rows, every one a brand query, impressions and clicks rising
LongRows(n) == [i \in 1..n |-> Row(<<"w", "p", ToString(i)>>, i, 2 * i, 5000, 10)]

QueryAnswers ==
  { <<>>, <<QueryWp, QueryUpper, QueryOther>>, <<QueryOther>>,
    <<QueryG, QueryNoKey, QueryWp>>,
    LongRows(TopN + ExtraRows) \o <<QueryOther>> }
PageAnswers ==
  { <<>>, <<PageHome, PageBig>>, <<PageZero>>, <<PageBig, PageTop, PageHome>>,
    LongRows(TopN + ExtraRows) }
FewQueryAnswers == { <<>>, <<QueryWp, QueryUpper, QueryOther>> }
FewPageAnswers == { <<>>, <<PageHome, PageBig>> }

Request == <<"GET", "/">>
Referer == <<"-">>
Stamp(i) == <<"t" \o ToString(i)>>

LineKinds == {"gpt", "google", "both", "dash", "human", "nots", "common", "blank"}

\* the i-th line of a log, of the given kind
LogLine(kind, i) ==
  CASE kind = "gpt"    -> Line(Stamp(i), <<Request, Referer, <<"Mozilla", "GPTBot">>>>, TRUE)
    [] kind = "google" -> Line(Stamp(i), <<Request, Referer, <<"Googlebot">>>>, TRUE)
    [] kind = "both"   -> Line(Stamp(i), <<Request, Referer, <<"GPTBot", "Googlebot">>>>, TRUE)
    [] kind = "dash"   -> Line(Stamp(i), <<Request, Referer, <<"-">>>>, TRUE)
    [] kind = "human"  -> Line(Stamp(i), <<Request, Referer, <<"Mozilla">>>>, TRUE)
    [] kind = "nots"   -> Line(<<>>, <<Request, Referer, <<"GPTBot">>>>, TRUE)
    [] kind = "common" -> Line(Stamp(i), <<<<"GET", "Bingbot">>>>, FALSE)
    [] OTHER           -> BlankLine

LogOf(kinds) == [i \in 1..Len(kinds) |-> LogLine(kinds[i], i)]

AllLogs == {LogOf(k) : k \in UNION {[1..n -> LineKinds] : n \in 0..MaxLogLines}}
FewLogs == {LogOf(<<>>), LogOf(<<"gpt", "both", "google">>)}

Terms == << <<"W", "p">>, <<"g", "g">> >>

AllSet == <<"id", "secret", "token", "sc-domain:wpg">>
CredSets ==
  {AllSet} \cup {[AllSet EXCEPT ![i] = ""] : i \in 1..4} \cup {<<"", "", "", "">>}

Configs(termSets, feedCounts, credSets, paths, demos, extras) ==
  {Config(t, n, c[1], c[2], c[3], c[4], p, d, e) :
     t \in termSets, n \in feedCounts, c \in credSets, p \in paths,
     d \in demos, e \in extras}

(***************************************************************************)
(* Spec: the whole run, for every configuration.                           *)
(***************************************************************************)
Init ==
  InitWith(Configs({Terms}, 0..MaxFeeds, CredSets, {"", "access.log"},
                   BOOLEAN, {<<>>}))

Next ==
  \/ Start
  \/ FeedResolves(FewFeeds)
  \/ FeedRejects
  \/ QueryResolves(FewQueryAnswers, FewPageAnswers)
  \/ QueryRejects
  \/ ReadResolves(FewLogs)
  \/ ReadRejects
  \/ Join
  \/ MkdirResolves
  \/ MkdirRejects
  \/ WriteResolves
  \/ WriteRejects

Spec == Init /\ [][Next]_vars

(***************************************************************************)
(* SpecLive: the whole run on the event loop.  main() runs when the        *)
(* process starts; a pending external call may settle at any time or       *)
(* never, so no fairness is assumed for the calls of a fetcher.            *)
(***************************************************************************)
\* the external call fetchAlerts / fetchGSC / fetchBots waits for returns
AlertsStep == FeedResolves(FewFeeds) \/ FeedRejects
GSCStep == QueryResolves(FewQueryAnswers, FewPageAnswers) \/ QueryRejects
BotsStep == ReadResolves(FewLogs) \/ ReadRejects

\* every fetcher has work to do: feeds, all the credentials and a log
InitLive ==
  InitWith(Configs({Terms}, 1..2, {AllSet}, {"access.log"}, {FALSE}, {<<>>}))

SpecLive == InitLive /\ [][Next]_vars /\ WF_vars(Start)

(***************************************************************************)
(* SpecAlerts: the run with only ALERT_FEEDS configured, every feed answer.*)
(***************************************************************************)
InitAlerts ==
  InitWith(Configs({Terms}, 0..MaxFeeds, {<<"", "", "", "">>}, {""},
                   {FALSE}, {<<>>}))

NextAlerts ==
  \/ Start
  \/ FeedResolves(AllFeeds)
  \/ FeedRejects
  \/ Join
  \/ MkdirResolves
  \/ WriteResolves

SpecAlerts == InitAlerts /\ [][NextAlerts]_vars

(***************************************************************************)
(* SpecGSC: the run with only the GSC credentials configured.              *)
(***************************************************************************)
InitGSC ==
  InitWith(Configs({Terms, <<>>}, {0}, {AllSet}, {""}, BOOLEAN, {<<>>}))

NextGSC ==
  \/ Start
  \/ QueryResolves(QueryAnswers, PageAnswers)
  \/ QueryRejects
  \/ Join
  \/ MkdirResolves
  \/ WriteResolves

SpecGSC == InitGSC /\ [][NextGSC]_vars

(***************************************************************************)
(* SpecBots: the run with only LOG_PATH configured, every log.             *)
(***************************************************************************)
InitBots ==
  InitWith(Configs({Terms}, {0}, {<<"", "", "", "">>},
                   {"access.log", "access.log.gz"}, {FALSE},
                   {<<>>, <<"Googlebot", "(", "Mozilla">>}))

NextBots ==
  \/ Start
  \/ ReadResolves(AllLogs)
  \/ ReadRejects
  \/ Join
  \/ MkdirResolves
  \/ WriteResolves

SpecBots == InitBots /\ [][NextBots]_vars

(***************************************************************************)
(* Properties.                                                             *)
(***************************************************************************)
Written == outFile # NoFile

\* With every credential set fetchGSC returns null, or rejects, only when
\* a searchanalytics.query call threw.
AnalyticsThrew ==
  /\ CredsPresent(conf)
  /\ \/ gscPc = "rejected"
     \/ gscPc = "done" /\ gscRet = Null

\* C1: if the analytics API call throws (all credentials set, DEMO off), the
\* run is not aborted by it, and the snapshot it writes has the placeholder
\* as `gsc` and exactly the results of fetchAlerts and fetchBots as `alerts`
\* and `bots`.
C1_ThrowStillWritesSnapshot ==
  (AnalyticsThrew /\ ~conf.DEMO) =>
    /\ fatalErr # "gsc"
    /\ mainPc = "done" =>
         /\ Written
         /\ outFile.gsc = Placeholder(variant)
         /\ outFile.alerts = alertsRet
         /\ outFile.bots = botsRet

\* the revisions that catch the throw do write the placeholder snapshot
C1_CaughtThrowWritten ==
  /\ AnalyticsThrew /\ HasTryCatch(variant) /\ mainPc = "done" /\ Written
  /\ outFile.gsc = Placeholder(variant)
  /\ Len(outFile.alerts) > 0 /\ Len(outFile.bots) > 0

\* the name of the first signature in table order that matches the line's
\* user-agent ("" when none does)
FirstMatchName(defs, ua) ==
  IF \E i \in 1..Len(defs) : test(defs[i], ua)
  THEN defs[CHOOSE i \in 1..Len(defs) :
              test(defs[i], ua) /\ \A j \in 1..(i - 1) : ~test(defs[j], ua)].name
  ELSE ""

\* C2: every processed line counts for at most one bot, the first signature
\* in table order that matches its user-agent: the hits of each bot in the
\* result are the lines whose first match it is.
C2_FirstMatchOnly ==
  botsPc = "done" =>
    LET defs == BOT_DEFS(variant, conf.BOT_EXTRA)
    IN \A k \in 1..Len(botsRet) :
         botsRet[k].hits =
           Cardinality({i \in 1..Len(logLines) :
              FirstMatchName(defs, parseUA(variant, logLines[i])) = botsRet[k].name})

\* a line matching two signatures was counted
C2_LineMatchesTwo ==
  /\ botsPc = "done"
  /\ \E i \in 1..Len(logLines) :
       LET defs == BOT_DEFS(variant, conf.BOT_EXTRA)
           ua == parseUA(variant, logLines[i])
       IN Cardinality({d \in 1..Len(defs) : test(defs[d], ua)}) >= 2

\* the identity key of an alert: its link if non-empty, else its id
KeyOf(it) == IF it.link # "" THEN it.link ELSE it.id

\* C3: the result of fetchAlerts holds exactly one item per identity key of
\* the collected items, the first one with that key in the sorted array, and
\* no two of its items share a key.
C3_DedupFirstPerKey ==
  alertsPc = "done" =>
    /\ \A i, j \in 1..Len(alertsRet) :
         KeyOf(alertsRet[i]) = KeyOf(alertsRet[j]) => i = j
    /\ \A n \in 1..Len(all) :
         \E i \in 1..Len(alertsRet) :
           /\ KeyOf(alertsRet[i]) = KeyOf(all[n])
           /\ alertsRet[i] =
                all[CHOOSE m \in 1..Len(all) :
                      /\ KeyOf(all[m]) = KeyOf(all[n])
                      /\ \A l \in 1..(m - 1) : KeyOf(all[l]) # KeyOf(all[n])]
    /\ \A i \in 1..Len(alertsRet) : \E n \in 1..Len(all) : all[n] = alertsRet[i]

\* two collected items share a key and the later one was dropped
C3_DuplicateDropped ==
  /\ alertsPc = "done"
  /\ Len(alertsRet) >= 2
  /\ \E m, n \in 1..Len(all) :
       m < n /\ KeyOf(all[m]) = KeyOf(all[n]) /\ all[m] # all[n]
         /\ all[m].id # all[n].id

\* a is older than b: both dates are valid and a's is the earlier one
Older(a, b) ==
  /\ ~DateValue(a.published).nan /\ ~DateValue(b.published).nan
  /\ DateValue(a.published).v < DateValue(b.published).v

\* C4: the result of fetchAlerts is sorted by `published` descending: no
\* item is older than the item right after it.
C4_AlertsSortedDesc ==
  alertsPc = "done" =>
    \A i \in 1..(Len(alertsRet) - 1) : ~Older(alertsRet[i], alertsRet[i + 1])

GSCReturned == gscPc = "done" /\ gscRet # Null

\* the text q contains one of the terms, upper and lower case alike
ContainsBrandTerm(terms, q) ==
  \E t \in 1..Len(terms) : \E off \in 0..Len(q) :
    /\ off + Len(terms[t]) <= Len(q)
    /\ \A k \in 1..Len(terms[t]) : LowerChar(q[off + k]) = LowerChar(terms[t][k])

InTopQueries(r) ==
  \E i \in 1..Len(gscRet.topQueries) : gscRet.topQueries[i] = QueryRow(r)

\* row m of the answer ranks before row n: more impressions, or as many and
\* earlier in the answer
RanksBefore(rows, m, n) ==
  \/ rows[m].impressions > rows[n].impressions
  \/ rows[m].impressions = rows[n].impressions /\ m < n

\* C5 as stated: a query row of the window used is in topQueries if and
\* only if its text contains a brand term, case-insensitively.
C5_BrandIffInTopQueries ==
  GSCReturned =>
    \A n \in 1..Len(gscRows.query) :
      InTopQueries(gscRows.query[n])
        <=> ContainsBrandTerm(conf.BRAND_TERMS, FirstKey(gscRows.query[n]))

\* C5 as amended: a query row of the window used is in topQueries if and
\* only if its text contains a brand term, case-insensitively, and fewer
\* than 50 rows containing a brand term rank before it by impressions.
C5_BrandIffAmongTop50 ==
  GSCReturned =>
    \A n \in 1..Len(gscRows.query) :
      InTopQueries(gscRows.query[n])
        <=> /\ ContainsBrandTerm(conf.BRAND_TERMS, FirstKey(gscRows.query[n]))
            /\ Cardinality({m \in 1..Len(gscRows.query) :
                 /\ ContainsBrandTerm(conf.BRAND_TERMS, FirstKey(gscRows.query[m]))
                 /\ RanksBefore(gscRows.query, m, n)}) < TopN

\* more than 50 rows contain a brand term, one row does not, and one
\* matches only through its upper-case letters
C5_FilteredAndTruncated ==
  /\ GSCReturned
  /\ Len(gscRet.topQueries) = TopN
  /\ \E n \in 1..Len(gscRows.query) :
       /\ ContainsBrandTerm(conf.BRAND_TERMS, FirstKey(gscRows.query[n]))
       /\ ~InTopQueries(gscRows.query[n])
  /\ \E n \in 1..Len(gscRows.query) :
       ~ContainsBrandTerm(conf.BRAND_TERMS, FirstKey(gscRows.query[n]))

\* C6: the summary's overall CTR is sum(clicks) / sum(impressions) over
\* topPages, and 0 when sum(impressions) is 0.
C6_CtrIsClicksOverImpressions ==
  GSCReturned =>
    LET p == gscRet.topPages
        c == SeqSum([i \in 1..Len(p) |-> p[i].clicks])
        n == SeqSum([i \in 1..Len(p) |-> p[i].impressions])
    IN gscRet.summary.GenCTR =
         IF n = 0 THEN "0.00%" ELSE Fixed2Pct(RoundDiv(10000 * c, n))

\* C7: when the 30-day window returned no query row and no page row,
\* fetchGSC queried both dimensions again for the 90-day window ending the
\* same day, the Period names that range, and the rows returned are those
\* of the 90-day answer.
C7_EmptyWindowFallsBack ==
  (GSCReturned /\ Len(gscFirst.query) = 0 /\ Len(gscFirst.page) = 0) =>
    /\ gscCalls = <<<<30, "query">>, <<30, "page">>, <<90, "query">>, <<90, "page">>>>
    /\ gscWindow = 90
    /\ gscRet.summary.Period \in
         {RangeLabel(90), RangeLabel(90) \o " (fallback 90d)"}
    /\ gscRet.topPages = Slice(pages(gscRows.page), TopN)
    /\ gscRet.topQueries = Slice(brandQueries(conf.BRAND_TERMS, gscRows.query), TopN)

IsSortedDesc(s, f) == \A i \in 1..(Len(s) - 1) : s[i][f] >= s[i + 1][f]

\* C8: in every snapshot topQueries and topPages have at most 50 entries,
\* sorted by impressions and by clicks descending, and a row left out
\* ranks no higher than any row kept (and is left out only of a full list).
C8_Top50OfSortedRows ==
  Written =>
    LET q == outFile.gsc.topQueries
        p == outFile.gsc.topPages
    IN /\ Len(q) <= TopN /\ Len(p) <= TopN
       /\ IsSortedDesc(q, "impressions") /\ IsSortedDesc(p, "clicks")
       /\ (gscRet # Null /\ outFile.gsc = gscRet) =>
            /\ \A i \in 1..Len(q) :
                 \E n \in 1..Len(gscRows.query) :
                   /\ q[i] = QueryRow(gscRows.query[n])
                   /\ ContainsBrandTerm(conf.BRAND_TERMS, q[i].query)
            /\ \A i \in 1..Len(p) :
                 \E n \in 1..Len(gscRows.page) : p[i] = PageRow(gscRows.page[n])
            /\ \A n \in 1..Len(gscRows.query) :
                 (/\ ContainsBrandTerm(conf.BRAND_TERMS, FirstKey(gscRows.query[n]))
                  /\ QueryRow(gscRows.query[n]) \notin Range(q))
                 => /\ Len(q) = TopN
                    /\ \A i \in 1..Len(q) :
                         q[i].impressions >= gscRows.query[n].impressions
            /\ \A n \in 1..Len(gscRows.page) :
                 PageRow(gscRows.page[n]) \notin Range(p)
                 => /\ Len(p) = TopN
                    /\ \A i \in 1..Len(p) : p[i].clicks >= gscRows.page[n].clicks

\* a snapshot whose lists were cut to 50 rows
C8_ListsCut ==
  /\ Written /\ outFile.gsc = gscRet
  /\ Len(outFile.gsc.topQueries) = TopN /\ Len(gscRows.query) > TopN
  /\ Len(outFile.gsc.topPages) = TopN /\ Len(gscRows.page) > TopN

\* C9: a feed that fails is skipped and nothing else: every feed URL is
\* fetched, `all` holds the items of every feed that parsed, in feed
\* order before the sort, and each of them has its key in the result.
C9_FailedFeedOnlySkipped ==
  /\ alertsPc \in {"idle", "fetch", "done"}
  /\ alertsPc = "fetch" => Len(feedLog) = feedIdx - 1
  /\ alertsPc = "done" =>
       /\ Len(feedLog) = Len(conf.ALERT_FEEDS)
       /\ Len(all) = SeqSum([k \in 1..Len(feedLog) |-> Len(feedLog[k].items)])
       /\ \A k \in 1..Len(feedLog) : \A n \in 1..Len(feedLog[k].items) :
            /\ feedLog[k].items[n] \in Range(all)
            /\ \E i \in 1..Len(alertsRet) :
                 KeyOf(alertsRet[i]) = KeyOf(feedLog[k].items[n])

\* the second of three feeds failed, the first and the third had items
C9_MiddleFeedFailed ==
  /\ alertsPc = "done" /\ Len(feedLog) = 3
  /\ feedLog[1].ok /\ Len(feedLog[1].items) > 0
  /\ ~feedLog[2].ok
  /\ feedLog[3].ok /\ Len(feedLog[3].items) > 0
  /\ Len(alertsRet) >= 2

HitsOf(stats) == {<<stats[i].name, stats[i].hits>> : i \in 1..Len(stats)}

\* C10: scanning the lines oldest first gives the same bots with the same
\* hit counts as the scan newest first that fetchBots does.
C10_HitsSameBothDirections ==
  botsPc = "done" =>
    HitsOf(Scan(variant, BOT_DEFS(variant, conf.BOT_EXTRA), Reverse(logLines)))
      = HitsOf(botsRet)

\* the two directions give different results (last_seen, or the order of
\* the bots) for a log of several bots
C10_DirectionsDiffer ==
  /\ botsPc = "done"
  /\ Len(logLines) >= 2 /\ Len(botsRet) >= 2
  /\ Scan(variant, BOT_DEFS(variant, conf.BOT_EXTRA), Reverse(logLines)) # botsRet
  /\ \E i \in 1..Len(botsRet) : botsRet[i].hits >= 2

\* the line is counted for the bot `name`: by the first signature that
\* matches (part_002, which also skips '' and '-'), by any signature that
\* matches (update_data, part_000, part_001)
Attributed(v, defs, line, name) ==
  LET ua == parseUA(v, line)
  IN IF v = "part_002"
     THEN ua # <<>> /\ ua # <<"-">> /\ FirstMatchName(defs, ua) = name
     ELSE \E i \in 1..Len(defs) : defs[i].name = name /\ test(defs[i], ua)

\* the places in `lines` (newest first) of the lines counted for the bot
SightingsOf(v, defs, lines, name) ==
  {i \in 1..Len(lines) : Attributed(v, defs, lines[i], name)}

Min(S) == CHOOSE x \in S : \A y \in S : x <= y

\* C11: every bot of the fetchBots result has lines counted for it, and its
\* last_seen is the content of the first bracketed segment of the newest of
\* them (null when that line has none), never that of an older line.
C11_LastSeenFromNewestLine ==
  botsPc = "done" =>
    \A k \in 1..Len(botsRet) :
      LET seen == SightingsOf(variant, BOT_DEFS(variant, conf.BOT_EXTRA),
                              logLines, botsRet[k].name)
      IN /\ seen # {}
         /\ botsRet[k].last_seen = timeOf(logLines[Min(seen)])

\* a bot seen on two lines with different timestamps has the newer one
C11_TwoSightings ==
  /\ botsPc = "done"
  /\ \E k \in 1..Len(botsRet) :
       LET seen == SightingsOf(variant, BOT_DEFS(variant, conf.BOT_EXTRA),
                               logLines, botsRet[k].name)
       IN /\ Cardinality(seen) >= 2
          /\ \E i \in seen : timeOf(logLines[i]) # timeOf(logLines[Min(seen)])
          /\ botsRet[k].last_seen = timeOf(logLines[Min(seen)])
          /\ botsRet[k].last_seen # ""

\* C12: the bots list has one entry for each signature name that had a line
\* counted for it and no other entry: the names are distinct, every entry
\* has hits >= 1 (the number of lines counted for the name), also when a
\* BOT_EXTRA token repeats a built-in name or pattern.
C12_OneEntryPerSeenName ==
  botsPc = "done" =>
    LET defs == BOT_DEFS(variant, conf.BOT_EXTRA)
    IN /\ \A i, j \in 1..Len(botsRet) :
            i # j => botsRet[i].name # botsRet[j].name
       /\ \A k \in 1..Len(botsRet) :
            /\ botsRet[k].hits >= 1
            /\ botsRet[k].hits
                 = Cardinality(SightingsOf(variant, defs, logLines, botsRet[k].name))
       /\ \A i \in 1..Len(defs) :
            SightingsOf(variant, defs, logLines, defs[i].name) # {}
              => \E k \in 1..Len(botsRet) : botsRet[k].name = defs[i].name

\* BOT_EXTRA repeats the built-in name Googlebot and adds a token of its
\* own; both names were seen, Googlebot twice, and a built-in one was not
C12_ExtraRepeatsBuiltin ==
  /\ botsPc = "done" /\ variant = "part_002"
  /\ \E i \in 1..Len(conf.BOT_EXTRA) : conf.BOT_EXTRA[i] = "Googlebot"
  /\ \E k \in 1..Len(botsRet) : botsRet[k].name = "Googlebot" /\ botsRet[k].hits >= 2
  /\ \E k \in 1..Len(botsRet) : botsRet[k].name = "Mozilla"
  /\ Len(botsRet) < Len(BOT_DEFS(variant, conf.BOT_EXTRA))

\* the section main writes for a fetcher's result when DEMO is off
GscSection == IF gscRet = Null THEN Placeholder(variant) ELSE gscRet

\* C13 as stated: after a failed read of the log fetchBots has returned [],
\* the run has not been aborted by it, and the snapshot written has `bots`
\* empty and `alerts` and `gsc` as the other two fetchers returned them.
C13_ReadFailureEmptyBots ==
  botsErr =>
    /\ botsPc = "done" /\ botsRet = <<>>
    /\ fatalErr # "bots"
    /\ (mainPc = "await" /\ alertsPc = "done" /\ gscPc = "done") => ENABLED Join
    /\ mainPc = "done" =>
         /\ Written
         /\ outFile.bots = <<>>
         /\ outFile.alerts = alertsRet
         /\ outFile.gsc = GscSection

\* C13 amended: the same, except that with DEMO on (part_002) an empty
\* section of the snapshot holds the sample data: `bots` always, `alerts`
\* and `gsc` when they are empty themselves.
C13_ReadFailureEmptyBotsUnlessDemo ==
  botsErr =>
    /\ botsPc = "done" /\ botsRet = <<>>
    /\ fatalErr # "bots"
    /\ (mainPc = "await" /\ alertsPc = "done" /\ gscPc = "done") => ENABLED Join
    /\ mainPc = "done" =>
         /\ Written
         /\ outFile.bots = IF conf.DEMO THEN DemoBots ELSE <<>>
         /\ \/ outFile.alerts = alertsRet
            \/ /\ conf.DEMO /\ alertsRet = <<>>
               /\ \A i \in 1..Len(outFile.alerts) :
                    outFile.alerts[i].source = "Demo RSS"
         /\ \/ outFile.gsc = GscSection
            \/ conf.DEMO /\ GscSection.topPages = <<>> /\ outFile.gsc = DemoGSC

\* the read failed while the other two fetchers returned data, and the
\* snapshot was written with them and without bots
C13_ReadFailedOthersWritten ==
  /\ botsErr /\ mainPc = "done" /\ Written /\ ~conf.DEMO
  /\ outFile.bots = <<>>
  /\ Len(outFile.alerts) > 0 /\ outFile.alerts = alertsRet
  /\ gscRet # Null /\ outFile.gsc = gscRet /\ Len(outFile.gsc.topPages) > 0

\* one of the four required analytics settings is not set
SettingMissing ==
  \E f \in {"GSC_CLIENT_ID", "GSC_CLIENT_SECRET", "GSC_REFRESH_TOKEN", "GSC_PROPERTY"} :
    conf[f] = ""

\* C14 as stated: with a required setting missing, fetchGSC has returned
\* null once called, no searchanalytics.query call was issued, no error
\* reached main, and the snapshot written has the placeholder as `gsc`.
C14_MissingSettingUnavailable ==
  (SettingMissing /\ mainPc # "start") =>
    /\ gscPc = "done" /\ gscRet = Null
    /\ gscCalls = <<>> /\ gscPending = {}
    /\ fatalErr # "gsc"
    /\ mainPc = "done" => Written /\ outFile.gsc = Placeholder(variant)

\* C14 amended: the same, except that with DEMO on (part_002) the snapshot's
\* `gsc` is the sample section instead of the placeholder.
C14_MissingSettingUnavailableUnlessDemo ==
  (SettingMissing /\ mainPc # "start") =>
    /\ gscPc = "done" /\ gscRet = Null
    /\ gscCalls = <<>> /\ gscPending = {}
    /\ fatalErr # "gsc"
    /\ mainPc = "done" =>
         /\ Written
         /\ outFile.gsc = IF conf.DEMO THEN DemoGSC ELSE Placeholder(variant)

\* only the target property is missing; the snapshot was written with the
\* placeholder and with the data of the other two fetchers
C14_OnlyPropertyMissing ==
  /\ conf.GSC_PROPERTY = "" /\ conf.GSC_CLIENT_ID # ""
  /\ conf.GSC_CLIENT_SECRET # "" /\ conf.GSC_REFRESH_TOKEN # ""
  /\ mainPc = "done" /\ Written /\ gscCalls = <<>>
  /\ outFile.gsc = Placeholder(variant)
  /\ Len(outFile.alerts) > 0 /\ Len(outFile.bots) > 0

\* each fetcher's promise is settled: resolved ("done") or rejected
AllFetchersSettled ==
  /\ alertsPc = "done" /\ gscPc \in {"done", "rejected"} /\ botsPc = "done"

\* C15: main is past `await Promise.all(...)` (assembling, writing, done or
\* exited) only when fetchAlerts, fetchGSC and fetchBots have all finished,
\* whatever failed in them; data.json exists only at the end of the run and
\* is the one object main assembled.
C15_WaitsForAllFetchers ==
  /\ mainPc \in {"mkdir", "write", "done", "exit1"} => AllFetchersSettled
  /\ Written => mainPc = "done" /\ outFile = data

\* main is still waiting for a feed after the analytics call failed and
\* the log could not be read
C15_WaitsAfterFailures ==
  /\ mainPc = "await" /\ alertsPc = "fetch"
  /\ AnalyticsThrew /\ gscPc = "done"
  /\ botsErr /\ botsPc = "done"
  /\ ~Written

\* C16: whatever the third fetcher does (blocked for ever on a call, or
\* failed), two fetchers whose own external calls return run to completion.
C16_NoFetcherStarved ==
  /\ (WF_vars(AlertsStep) /\ WF_vars(BotsStep))
       => <>(alertsPc = "done" /\ botsPc = "done")
  /\ (WF_vars(AlertsStep) /\ WF_vars(GSCStep))
       => <>(alertsPc = "done" /\ gscPc \in {"done", "rejected"})
  /\ (WF_vars(GSCStep) /\ WF_vars(BotsStep))
       => <>(gscPc \in {"done", "rejected"} /\ botsPc = "done")

\* C17: the process exits with status 1 exactly when creating the output
\* directory or writing data.json failed; whatever failed in the fetchers,
\* main goes on to assemble and write once they are settled, and a run
\* whose write succeeded has ended without an error.
C17_OnlyWriteIsFatal ==
  /\ mainPc = "exit1" <=> fatalErr \in {"mkdir", "write"}
  /\ fatalErr \in {"", "mkdir", "write"}
  /\ (mainPc = "await" /\ AllFetchersSettled) => ENABLED Join
  /\ mainPc = "done" <=> Written

\* a feed, the analytics call and the log read all failed, and the run
\* ended normally with data.json written
C17_AllFailedStillWritten ==
  /\ mainPc = "done" /\ Written /\ fatalErr = ""
  /\ \E k \in 1..Len(feedLog) : ~feedLog[k].ok
  /\ AnalyticsThrew
  /\ botsErr

\* the sum of field f over the raw page rows of the window used
PageTotal(f) == SeqSum([i \in 1..Len(gscRows.page) |-> gscRows.page[i][f]])

\* C18: the summary's Klickar and Visningar are the sums of clicks and of
\* impressions over every page row the API returned for the window used,
\* the rows cut from topPages included.
C18_TotalsOverAllPageRows ==
  GSCReturned =>
    /\ gscRet.summary.Klickar = PageTotal("clicks")
    /\ gscRet.summary.Visningar = PageTotal("impressions")

\* more than 50 page rows came back and the totals are larger than the
\* sums over the 50 rows kept
C18_TotalsCountCutRows ==
  /\ GSCReturned
  /\ Len(gscRows.page) > TopN /\ Len(gscRet.topPages) = TopN
  /\ gscRet.summary.Klickar = PageTotal("clicks")
  /\ gscRet.summary.Klickar
       > SeqSum([i \in 1..Len(gscRet.topPages) |-> gscRet.topPages[i].clicks])

\* a searchanalytics.query call for the 90-day window was issued
FellBack == \E i \in 1..Len(gscCalls) : gscCalls[i][1] = 90

\* C19: the 90-day queries are issued only when the 30-day window returned
\* no query row and no page row at all; when it returned a row, fetchGSC
\* answers from the two 30-day calls and reports the 30-day range, also
\* when none of the query rows contains a brand term.
C19_FallbackOnlyWhenRawEmpty ==
  /\ FellBack => gscFirst = NoRows
  /\ (GSCReturned /\ gscFirst # NoRows) =>
       /\ gscWindow = 30 /\ Len(gscCalls) = 2
       /\ gscRet.summary.Period = Period(variant, 30)

\* a revision with the fallback got 30-day query rows without a brand term,
\* and answered from the 30-day window with an empty topQueries
C19_NoBrandRowNoFallback ==
  /\ GSCReturned /\ HasFallback(variant) /\ conf.BRAND_TERMS # <<>>
  /\ gscFirst.query # <<>> /\ gscRet.topQueries = <<>>
  /\ ~FellBack /\ gscRet.summary.Period = Period(variant, 30)

\* C20: in the snapshot written, a section for which the fetcher returned
\* data (alerts, bots, or a GSC result with a row in topQueries or in
\* topPages) is that result unchanged, with DEMO on as with DEMO off; with
\* DEMO off every section is what its fetcher returned (the placeholder for
\* null).
C20_DemoFillsOnlyEmptySections ==
  Written =>
    /\ alertsRet # <<>> => outFile.alerts = alertsRet
    /\ botsRet # <<>> => outFile.bots = botsRet
    /\ (gscRet # Null /\ (gscRet.topQueries # <<>> \/ gscRet.topPages # <<>>))
         => outFile.gsc = gscRet
    /\ ~conf.DEMO =>
         /\ outFile.alerts = alertsRet
         /\ outFile.bots = botsRet
         /\ outFile.gsc = GscSection

\* DEMO is on: the empty bots section holds the sample, the fetched alerts
\* and the fetched GSC section are written as they are
C20_DemoFilledOneSection ==
  /\ Written /\ conf.DEMO
  /\ botsRet = <<>> /\ outFile.bots = DemoBots
  /\ alertsRet # <<>> /\ outFile.alerts = alertsRet
  /\ gscRet # Null /\ gscRet.topPages # <<>> /\ outFile.gsc = gscRet

====
